---- MODULE Spec2Model ----
(***************************************************************************)
(* RAT (retrieval augmented thinking): a terminal chat client that relays  *)
(* every query through a reasoning model and then a response model.        *)
(* The repository holds four variants of the same client:                  *)
(*   "rat"    src/rat/rat.py      DeepSeek reasoner + OpenRouter           *)
(*   "claude" src/rat-claude.py   DeepSeek/Akash reasoner + Claude         *)
(*   "local"  src/rat-local.py    local inference server                   *)
(*   "akash"  src/rat-akash.py    Akash network                            *)
(* One behaviour of the model is one session of one variant.  Text is a    *)
(* sequence of one-character strings, so that substring tests, replace,    *)
(* split and the regular expression of rat-local.py act on characters.     *)
(***************************************************************************)
EXTENDS Integers, Sequences, FiniteSets, TLC

\* Bound on the number of queries submitted in one session.
MaxTurns == 2

(***************************************************************************)
(* Text literals of the source.                                            *)
(***************************************************************************)
OPEN == <<"<", "t", "h", "i", "n", "k", ">">>
CLOSE == <<"<", "/", "t", "h", "i", "n", "k", ">">>
THINKING_OPEN == <<"<", "t", "h", "i", "n", "k", "i", "n", "g", ">">>
THINKING_CLOSE == <<"<", "/", "t", "h", "i", "n", "k", "i", "n", "g", ">">>
QUESTION_OPEN == <<"<", "q", "u", "e", "s", "t", "i", "o", "n", ">">>
QUESTION_CLOSE == <<"<", "/", "q", "u", "e", "s", "t", "i", "o", "n", ">">>
NLNL == <<"\n", "\n">>

Variants == {"rat", "claude", "local", "akash"}

\* The response model each variant starts with, and the names `model <name>`
\* may set.
DefaultModel(v) ==
    CASE v = "rat" -> "openai/gpt-4o-mini"
      [] v = "claude" -> "claude-3-5-haiku-20241022"
      [] v = "local" -> "meta-llama-3.1-8b-instruct"
      [] v = "akash" -> "Meta-Llama-3-3-70B-Instruct"

\* The reasoning model of a variant (claude: by --use-deepseek).
ReasoningModel(v, ds) ==
    CASE v = "rat" -> "deepseek-reasoner"
      [] v = "claude" -> IF ds THEN "deepseek-reasoner" ELSE "DeepSeek-R1"
      [] v = "local" -> "deepseek-r1-distill-llama-8b"
      [] v = "akash" -> "DeepSeek-R1"

ModelNames == {"other-model"}

\* Queries typed at the prompt (already stripped, none of them a command).
Queries == {<<"h", "i">>, <<"y", "o">>}

(***************************************************************************)
(* Python string operations used by the source.                            *)
(***************************************************************************)
\* s[i:i+len(sub)] == sub
OccursAt(s, sub, i) ==
    /\ i >= 1
    /\ i + Len(sub) - 1 <= Len(s)
    /\ SubSeq(s, i, i + Len(sub) - 1) = sub

\* sub in s
Contains(s, sub) == \E i \in 1..Len(s) : OccursAt(s, sub, i)

\* s.find(sub, from), 1-based, 0 when absent
Find(s, sub, from) ==
    IF \E i \in from..Len(s) : OccursAt(s, sub, i)
    THEN CHOOSE i \in from..Len(s) :
            /\ OccursAt(s, sub, i)
            /\ \A j \in from..(i - 1) : ~OccursAt(s, sub, j)
    ELSE 0

\* s[from:]
Tail_(s, from) == SubSeq(s, from, Len(s))

\* s.replace(sub, ""): leftmost non-overlapping occurrences removed
RECURSIVE Remove(_, _)
Remove(s, sub) ==
    LET i == Find(s, sub, 1) IN
    IF i = 0 THEN s
    ELSE SubSeq(s, 1, i - 1) \o Remove(Tail_(s, i + Len(sub)), sub)

\* s.split(sub)[0]
SplitFirst(s, sub) ==
    LET i == Find(s, sub, 1) IN
    IF i = 0 THEN s ELSE SubSeq(s, 1, i - 1)

\* re.findall(r'<think>(.*?)</think>', s, re.DOTALL)
RECURSIVE FindAllThink(_)
FindAllThink(s) ==
    LET i == Find(s, OPEN, 1) IN
    IF i = 0 THEN <<>>
    ELSE LET j == Find(s, CLOSE, i + Len(OPEN)) IN
         IF j = 0 THEN <<>>
         ELSE <<SubSeq(s, i + Len(OPEN), j - 1)>>
              \o FindAllThink(Tail_(s, j + Len(CLOSE)))

\* "\n".join(lst)
RECURSIVE JoinNewline(_)
JoinNewline(lst) ==
    IF lst = <<>> THEN <<>>
    ELSE IF Len(lst) = 1 THEN lst[1]
    ELSE lst[1] \o <<"\n">> \o JoinNewline(Tail(lst))

\* str(lst) of a list of strings free of quotes and escapes: ['a', 'b']
RECURSIVE ReprItems(_)
ReprItems(lst) ==
    IF lst = <<>> THEN <<>>
    ELSE IF Len(lst) = 1 THEN <<"'">> \o lst[1] \o <<"'">>
    ELSE <<"'">> \o lst[1] \o <<"'", ",", " ">> \o ReprItems(Tail(lst))

PyListStr(lst) == <<"[">> \o ReprItems(lst) \o <<"]">>

\* concatenation of a list of texts
RECURSIVE Concat(_)
Concat(lst) == IF lst = <<>> THEN <<>> ELSE lst[1] \o Concat(Tail(lst))

(***************************************************************************)
(* What the backends may send.  A chunk of a chat-completion stream is     *)
(* its delta: rc the reasoning_content field, c the content field; <<>>    *)
(* stands for None and for the empty string, which the source's            *)
(* truthiness tests do not tell apart.                                     *)
(***************************************************************************)
Chunk(rc, c) == [rc |-> rc, c |-> c]

\* an inline-tag stream with whole markers, text after </think>
StreamWhole ==
    << Chunk(<<>>, OPEN \o <<"a">>),
       Chunk(<<>>, <<"b">> \o CLOSE),
       Chunk(<<>>, <<"z">>) >>

\* an inline-tag stream whose markers straddle chunk borders
StreamSplit ==
    << Chunk(<<>>, <<"<", "t", "h">>),
       Chunk(<<>>, <<"i", "n", "k", ">", "p", "l", "a", "n", " ", "A", "<", "/", "t", "h", "i">>),
       Chunk(<<>>, <<"n", "k", ">">>) >>

\* an explicit-field stream: reasoning deltas, then a content delta
StreamFields ==
    << Chunk(<<"a">>, <<>>),
       Chunk(<<"b">>, <<>>),
       Chunk(<<>>, <<"z">>) >>

ReasoningStreams == {StreamWhole, StreamSplit, StreamFields}

\* response streams: the content of each chunk (<<>> for a chunk without text)
ResponseStreams == { << <<"o">>, <<>>, <<"k">> >>, << <<"n">> >> }

\* message.content of the single-shot reply carrying the same output
MessageContent(s) == Concat([i \in 1..Len(s) |-> s[i].c])

(***************************************************************************)
(* Messages.  fmt tells the two wire shapes of content apart: a plain      *)
(* string ("text") or a list holding one text block ("blocks").  turn is   *)
(* not part of the program's message: it records the turn that appended    *)
(* the message.                                                            *)
(***************************************************************************)
Msg(role, content, fmt, t) ==
    [role |-> role, content |-> content, fmt |-> fmt, turn |-> t]

\* one thing printed to the terminal
Out(kind, text) == [kind |-> kind, text |-> text]

\* the response history's content shape of a variant
Fmt(v) == IF v \in {"claude", "local"} THEN "blocks" ELSE "text"

(***************************************************************************)
(* The reasoning stage: get_deepseek_reasoning.                            *)
(***************************************************************************)
\* locals of one call of get_deepseek_reasoning
ReasoningLocals ==
    [reasoning_content |-> <<>>, final_content |-> <<>>,
     full_response |-> <<>>, is_thinking |-> FALSE, think_content |-> <<>>,
     brk |-> FALSE]

\* what is printed when the call starts
ReasoningHeader(show) ==
    IF show THEN <<Out("header", <<>>)>> ELSE <<>>

\* print(piece, end="", flush=True) under `if self.show_reasoning`
PrintReasoning(show, piece) ==
    IF show THEN <<Out("reasoning", piece)>> ELSE <<>>

\* rat.py: one iteration of `for chunk in response`
StepRat(st, chunk, show) ==
    IF chunk.rc # <<>>
    THEN [st |-> [st EXCEPT !.reasoning_content = @ \o chunk.rc],
          out |-> PrintReasoning(show, chunk.rc)]
    ELSE IF chunk.c # <<>>
    THEN [st |-> [st EXCEPT !.final_content = @ \o chunk.c], out |-> <<>>]
    ELSE [st |-> st, out |-> <<>>]

\* StepAkash with the accumulation moved under `if self.show_reasoning`
StepAkashGated(st, chunk, show) ==
    IF chunk.c # <<>>
    THEN [st |-> [st EXCEPT !.reasoning_content =
                                IF show THEN @ \o chunk.c ELSE @,
                            !.brk = Contains(chunk.c, CLOSE)],
          out |-> PrintReasoning(show, chunk.c)]
    ELSE [st |-> st, out |-> <<>>]

\* rat-akash.py: one iteration of `for chunk in response`
StepAkash(st, chunk, show) ==
    IF chunk.c # <<>>
    THEN [st |-> [st EXCEPT !.reasoning_content = @ \o chunk.c,
                            !.brk = Contains(chunk.c, CLOSE)],
          out |-> PrintReasoning(show, chunk.c)]
    ELSE [st |-> st, out |-> <<>>]

\* rat-claude.py: one iteration of `for chunk in response`
StepClaude(st, chunk, show, ds) ==
    IF ds /\ chunk.rc # <<>>
    THEN [st |-> [st EXCEPT !.reasoning_content = @ \o chunk.rc,
                            !.brk = Contains(chunk.rc, CLOSE)],
          out |-> PrintReasoning(show, chunk.rc)]
    ELSE IF chunk.c # <<>>
    THEN IF ~ds
         THEN [st |-> [st EXCEPT !.reasoning_content = @ \o chunk.c,
                                 !.brk = Contains(chunk.c, CLOSE)],
               out |-> PrintReasoning(show, chunk.c)]
         ELSE [st |-> [st EXCEPT !.final_content = @ \o chunk.c,
                                 !.brk = Contains(st.final_content \o chunk.c, CLOSE)],
               out |-> <<>>]
    ELSE [st |-> st, out |-> <<>>]

\* rat-local.py: one iteration of `for chunk in response`
StepLocal(st, chunk, show) ==
    IF chunk.c # <<>>
    THEN LET opened == Contains(chunk.c, OPEN)
             thinking == opened \/ st.is_thinking
             base == IF opened THEN <<>> ELSE st.think_content
         IN [st |-> [st EXCEPT
                       !.full_response = @ \o chunk.c,
                       !.think_content =
                           IF thinking THEN base \o chunk.c ELSE base,
                       !.is_thinking =
                           IF thinking /\ Contains(chunk.c, CLOSE)
                           THEN FALSE ELSE thinking],
             out |-> <<>>]
    ELSE [st |-> st, out |-> <<>>]

\* one iteration of the streaming loop of variant v
ReasoningStep(v, ds, st, chunk, show) ==
    CASE v = "rat" -> StepRat(st, chunk, show)
      [] v = "akash" -> StepAkash(st, chunk, show)
      [] v = "claude" -> StepClaude(st, chunk, show, ds)
      [] v = "local" -> StepLocal(st, chunk, show)

\* the non-streaming branch of rat-akash.py and rat-claude.py
ReasoningNonStream(st, content, show) ==
    [st |-> [st EXCEPT !.reasoning_content =
                IF Contains(content, CLOSE)
                THEN SplitFirst(content, CLOSE) \o CLOSE
                ELSE content],
     out |-> IF show THEN <<Out("reasoning", content)>> ELSE <<>>]

\* the value get_deepseek_reasoning returns
ReasoningReturn(v, st) ==
    CASE v = "rat" -> st.reasoning_content
      [] v \in {"akash", "claude"} ->
            Remove(Remove(st.reasoning_content, OPEN), CLOSE)
      [] v = "local" -> FindAllThink(st.think_content)

\* what is printed after the loop, up to the return
ReasoningFooter(v, st, show) ==
    (IF v = "local"
     THEN <<Out("reasoning", JoinNewline(FindAllThink(st.think_content)))>>
     ELSE <<>>)
    \o <<Out("timing", <<>>)>>

(***************************************************************************)
(* The response stage: get_openrouter_response, get_claude_response,       *)
(* get_local_response, get_llama_response.                                 *)
(***************************************************************************)
\* f"{reasoning}": rat-local.py formats the list re.findall returned
FormatReasoning(v, reasoning) ==
    IF v = "local" THEN PyListStr(reasoning) ELSE reasoning

\* f"<thinking>{reasoning}</thinking>"
Wrap(v, reasoning) ==
    THINKING_OPEN \o FormatReasoning(v, reasoning) \o THINKING_CLOSE

\* rat.py: combined_prompt
CombinedPrompt(user_input, reasoning) ==
    QUESTION_OPEN \o user_input \o QUESTION_CLOSE \o NLNL
    \o THINKING_OPEN \o reasoning \o THINKING_CLOSE \o NLNL

\* the response history once the request is about to be sent:
\* rat.py appends the combined prompt before the request
ResponseHistoryAtRequest(v, hist, user_input, reasoning, t) ==
    IF v = "rat"
    THEN Append(hist, Msg("user", CombinedPrompt(user_input, reasoning), "text", t))
    ELSE hist

\* ResponseRequestMessages sending the accumulated history in every variant
ResponseRequestMessagesAccumulated(v, hist, user_input, reasoning, t) ==
    IF v = "rat"
    THEN ResponseHistoryAtRequest(v, hist, user_input, reasoning, t)
    ELSE hist \o << Msg("user", user_input, Fmt(v), t),
                    Msg("assistant", Wrap(v, reasoning), Fmt(v), t) >>

\* messages= of the response-stage request
ResponseRequestMessages(v, hist, user_input, reasoning, t) ==
    IF v = "rat"
    THEN ResponseHistoryAtRequest(v, hist, user_input, reasoning, t)
    ELSE << Msg("user", user_input, Fmt(v), t),
            Msg("assistant", Wrap(v, reasoning), Fmt(v), t) >>

\* the response history after a response stage that completed;
\* hist is the history the request left
ResponseHistorySettled(v, hist, user_input, full_response, t) ==
    IF v = "rat"
    THEN Append(hist, Msg("assistant", full_response, "text", t))
    ELSE hist \o << Msg("user", user_input, Fmt(v), t),
                    Msg("assistant", full_response, Fmt(v), t) >>

\* ReasoningHistorySettled leaving the reasoning history as it was
ReasoningHistorySettledSkipped(hist, full_response, t) == hist

\* the reasoning history after a response stage that completed
ReasoningHistorySettled(hist, full_response, t) ==
    Append(hist, Msg("assistant", full_response, "text", t))

\* self.deepseek_messages.append({"role": "user", "content": user_input})
ReasoningHistoryAtStart(hist, user_input, t) ==
    Append(hist, Msg("user", user_input, "text", t))

\* ReasoningRequestMessages sending only the newest message
ReasoningRequestMessagesLast(hist) == <<hist[Len(hist)]>>

\* messages= of the reasoning-stage request: self.deepseek_messages
ReasoningRequestMessages(hist) == hist

\* ResponseModel ignoring set_model
ResponseModelDefault(v, current) == DefaultModel(v)

\* model= of the response-stage request: self.current_model
ResponseModel(v, current) == current

\* AfterInterrupt leaving the loop, as the EOFError clause does
AfterInterruptBreak == "exited"

\* where main() goes on KeyboardInterrupt: `continue`
AfterInterrupt == "prompt"

\* a chat-completion request
Request(stage, model, messages) ==
    [stage |-> stage, model |-> model, messages |-> messages]

\* Issue sending the request a second time
IssueTwice(log, req) == Append(Append(log, req), req)

\* the requests of the turn once one more has been issued
Issue(log, req) == Append(log, req)

(***************************************************************************)
(* The session.                                                            *)
(***************************************************************************)
VARIABLES
    variant,            \* which of the four programs runs
    stream,             \* chain.stream (--no-stream clears it)
    use_deepseek_openrouter,  \* rat-claude.py: --use-deepseek
    deepseek_messages,  \* chain.deepseek_messages, the reasoning history
    response_messages,  \* the history the response stage appends to
    stray,              \* attributes assigned on chain that __init__ never made
    current_model,      \* chain.current_model
    show_reasoning,     \* chain.show_reasoning
    pc,                 \* where main() is
    turn,               \* number of queries submitted so far
    ok_turns,           \* turns completed since session start or last clear
    user_input,         \* the query of the turn in progress
    rstream,            \* chunks of the reasoning stream not yet consumed
    rs,                 \* locals of get_deepseek_reasoning
    reasoning,          \* what get_deepseek_reasoning returned
    pstream,            \* chunks of the response stream not yet consumed
    full_response,      \* full_response of the response stage
    requests,           \* chat-completion requests issued in this turn
    sink,               \* what this turn printed to the terminal
    last_op,            \* the step main() took last
    pre,                \* both histories as they were when the turn began
    twin,               \* the same session run with show_reasoning negated
    delivered           \* the reasoning stream as the backend sent it this turn

vars == << variant, stream, use_deepseek_openrouter, deepseek_messages,
           response_messages, stray, current_model, show_reasoning, pc, turn,
           ok_turns, user_input, rstream, rs, reasoning, pstream,
           full_response, requests, sink, last_op, pre, twin, delivered >>

config == << variant, stream, use_deepseek_openrouter >>
turnLocals == << user_input, rstream, rs, reasoning, pstream, full_response,
                 requests, sink, pre >>

\* does this session read its backends as streams
Streaming == variant \in {"rat", "local"} \/ stream

\* the twin before any turn
TwinInit ==
    [rs |-> ReasoningLocals, reasoning |-> <<>>, deepseek_messages |-> <<>>,
     response_messages |-> <<>>, handoff |-> <<>>]

Init ==
    /\ variant \in Variants
    /\ stream \in (IF variant \in {"claude", "akash"} THEN BOOLEAN ELSE {TRUE})
    /\ use_deepseek_openrouter \in
          (IF variant = "claude" THEN BOOLEAN ELSE {FALSE})
    /\ deepseek_messages = <<>>
    /\ response_messages = <<>>
    /\ stray = {}
    /\ current_model = DefaultModel(variant)
    /\ show_reasoning = TRUE
    /\ pc = "prompt"
    /\ turn = 0
    /\ ok_turns = 0
    /\ user_input = <<>>
    /\ rstream = <<>>
    /\ rs = ReasoningLocals
    /\ reasoning = <<>>
    /\ pstream = <<>>
    /\ full_response = <<>>
    /\ requests = <<>>
    /\ sink = <<>>
    /\ last_op = "init"
    /\ pre = [ds |-> <<>>, resp |-> <<>>]
    /\ twin = TwinInit
    /\ delivered = <<>>

\* Locals of a turn are dead once main() reads the next command: the
\* commands below put them back to their initial values.
ResetTurnLocals ==
    /\ user_input' = <<>>
    /\ rstream' = <<>>
    /\ rs' = ReasoningLocals
    /\ reasoning' = <<>>
    /\ pstream' = <<>>
    /\ full_response' = <<>>
    /\ requests' = <<>>
    /\ sink' = <<>>
    /\ pre' = [ds |-> deepseek_messages, resp |-> response_messages]
    /\ delivered' = <<>>

\* the twin's locals, likewise
ResetTwinLocals(tw) ==
    [tw EXCEPT !.rs = ReasoningLocals, !.reasoning = <<>>, !.handoff = <<>>]

\* when a turn is left the streams are dropped with the stage's frame
DropStreams ==
    /\ rstream' = <<>>
    /\ pstream' = <<>>
    /\ rs' = ReasoningLocals

\* the twin's frame, likewise
DropTwinStreams(tw) == [tw EXCEPT !.rs = ReasoningLocals]

(***************************************************************************)
(* Commands read at the prompt.                                            *)
(***************************************************************************)
\* 'quit'
Quit ==
    /\ pc = "prompt"
    /\ pc' = "exited"
    /\ last_op' = "quit"
    /\ twin' = ResetTwinLocals(twin)
    /\ ResetTurnLocals
    /\ UNCHANGED << config, deepseek_messages, response_messages, stray,
                    current_model, show_reasoning, turn, ok_turns >>

\* session.prompt raises EOFError
EndOfInput ==
    /\ pc = "prompt"
    /\ pc' = "exited"
    /\ last_op' = "eof"
    /\ twin' = ResetTwinLocals(twin)
    /\ ResetTurnLocals
    /\ UNCHANGED << config, deepseek_messages, response_messages, stray,
                    current_model, show_reasoning, turn, ok_turns >>

\* the response history after 'clear': rat-local.py assigns
\* chain.claude_messages, which is not the list get_local_response extends
ClearedResponse(v, hist) == IF v = "local" THEN hist ELSE <<>>

\* 'clear' (rat.py has no such command)
Clear ==
    /\ pc = "prompt"
    /\ variant # "rat"
    /\ deepseek_messages' = <<>>
    /\ response_messages' = ClearedResponse(variant, response_messages)
    /\ stray' = IF variant = "local" THEN stray \cup {"claude_messages"} ELSE stray
    /\ ok_turns' = 0
    /\ last_op' = "clear"
    /\ twin' = [ResetTwinLocals(twin) EXCEPT
                  !.deepseek_messages = <<>>,
                  !.response_messages = ClearedResponse(variant, @)]
    /\ ResetTurnLocals
    /\ UNCHANGED << config, current_model, show_reasoning, pc, turn >>

\* 'model <name>'
SetModel(name) ==
    /\ pc = "prompt"
    /\ current_model' = name
    /\ last_op' = "model"
    /\ twin' = ResetTwinLocals(twin)
    /\ ResetTurnLocals
    /\ UNCHANGED << config, deepseek_messages, response_messages, stray,
                    show_reasoning, pc, turn, ok_turns >>

\* ToggleReasoning switching the display off whatever it was
ToggleReasoningOff ==
    /\ pc = "prompt"
    /\ show_reasoning' = FALSE
    /\ last_op' = "reasoning"
    /\ twin' = ResetTwinLocals(twin)
    /\ ResetTurnLocals
    /\ UNCHANGED << config, deepseek_messages, response_messages, stray,
                    current_model, pc, turn, ok_turns >>

\* 'reasoning'
ToggleReasoning ==
    /\ pc = "prompt"
    /\ show_reasoning' = ~show_reasoning
    /\ last_op' = "reasoning"
    /\ twin' = ResetTwinLocals(twin)
    /\ ResetTurnLocals
    /\ UNCHANGED << config, deepseek_messages, response_messages, stray,
                    current_model, pc, turn, ok_turns >>

(***************************************************************************)
(* A turn: get_deepseek_reasoning, then the response stage.                *)
(***************************************************************************)
\* a query is read; get_deepseek_reasoning appends it and sends its request,
\* which the backend starts to answer with s
Submit(q, s) ==
    /\ pc = "prompt"
    /\ turn < MaxTurns
    /\ turn' = turn + 1
    /\ user_input' = q
    /\ pre' = [ds |-> deepseek_messages, resp |-> response_messages]
    /\ deepseek_messages' = ReasoningHistoryAtStart(deepseek_messages, q, turn + 1)
    /\ sink' = ReasoningHeader(show_reasoning)
    /\ requests' = Issue(<<>>, Request("reasoning",
                            ReasoningModel(variant, use_deepseek_openrouter),
                            ReasoningRequestMessages(deepseek_messages')))
    /\ rstream' = s
    /\ delivered' = s
    /\ rs' = ReasoningLocals
    /\ reasoning' = <<>>
    /\ pstream' = <<>>
    /\ full_response' = <<>>
    /\ pc' = "r_stream"
    /\ last_op' = "submit"
    /\ twin' = [twin EXCEPT
                  !.rs = ReasoningLocals,
                  !.reasoning = <<>>,
                  !.handoff = <<>>,
                  !.deepseek_messages = ReasoningHistoryAtStart(@, q, turn + 1)]
    /\ UNCHANGED << config, response_messages, stray, current_model,
                    show_reasoning, ok_turns >>

\* a query is read; the reasoning request raises.  Nothing in
\* get_deepseek_reasoning or main() catches it.
SubmitFail(q) ==
    /\ pc = "prompt"
    /\ turn < MaxTurns
    /\ turn' = turn + 1
    /\ user_input' = q
    /\ pre' = [ds |-> deepseek_messages, resp |-> response_messages]
    /\ deepseek_messages' = ReasoningHistoryAtStart(deepseek_messages, q, turn + 1)
    /\ sink' = ReasoningHeader(show_reasoning)
    /\ requests' = Issue(<<>>, Request("reasoning",
                            ReasoningModel(variant, use_deepseek_openrouter),
                            ReasoningRequestMessages(deepseek_messages')))
    /\ rstream' = <<>>
    /\ delivered' = <<>>
    /\ rs' = ReasoningLocals
    /\ reasoning' = <<>>
    /\ pstream' = <<>>
    /\ full_response' = <<>>
    /\ pc' = "crashed"
    /\ last_op' = "reasoning_fail"
    /\ twin' = [twin EXCEPT
                  !.rs = ReasoningLocals,
                  !.reasoning = <<>>,
                  !.handoff = <<>>,
                  !.deepseek_messages = ReasoningHistoryAtStart(@, q, turn + 1)]
    /\ UNCHANGED << config, response_messages, stray, current_model,
                    show_reasoning, ok_turns >>

\* one chunk of the reasoning stream is consumed
ReasoningChunk ==
    /\ pc = "r_stream"
    /\ Streaming
    /\ rstream # <<>>
    /\ ~rs.brk
    /\ LET r == ReasoningStep(variant, use_deepseek_openrouter, rs,
                              Head(rstream), show_reasoning)
           tw == ReasoningStep(variant, use_deepseek_openrouter, twin.rs,
                               Head(rstream), ~show_reasoning)
       IN /\ rs' = r.st
          /\ sink' = sink \o r.out
          /\ twin' = [twin EXCEPT !.rs = IF @.brk THEN @ ELSE tw.st]
    /\ rstream' = Tail(rstream)
    /\ last_op' = "chunk"
    /\ UNCHANGED << config, deepseek_messages, response_messages, stray,
                    current_model, show_reasoning, pc, turn, ok_turns,
                    user_input, reasoning, pstream, full_response, requests,
                    pre, delivered >>

\* the reasoning stream raises while it is read: uncaught
ReasoningStreamFail ==
    /\ pc = "r_stream"
    /\ pc' = "crashed"
    /\ last_op' = "reasoning_fail"
    /\ twin' = DropTwinStreams(twin)
    /\ DropStreams
    /\ UNCHANGED << config, deepseek_messages, response_messages, stray,
                    current_model, show_reasoning, turn, ok_turns, user_input,
                    reasoning, full_response, requests, sink, pre,
                    delivered >>

\* the loop ends (stream exhausted, or break at </think>) and
\* get_deepseek_reasoning returns
ReasoningEnd ==
    /\ pc = "r_stream"
    /\ Streaming
    /\ rstream = <<>> \/ rs.brk
    /\ reasoning' = ReasoningReturn(variant, rs)
    /\ sink' = sink \o ReasoningFooter(variant, rs, show_reasoning)
    /\ twin' = [DropTwinStreams(twin) EXCEPT
                  !.reasoning = ReasoningReturn(variant, twin.rs)]
    /\ DropStreams
    /\ pc' = "r_complete"
    /\ last_op' = "reasoning_done"
    /\ UNCHANGED << config, deepseek_messages, response_messages, stray,
                    current_model, show_reasoning, turn, ok_turns, user_input,
                    full_response, requests, pre, delivered >>

\* --no-stream: the whole reply arrives and get_deepseek_reasoning returns
ReasoningSingleShot ==
    /\ pc = "r_stream"
    /\ ~Streaming
    /\ LET r == ReasoningNonStream(rs, MessageContent(rstream), show_reasoning)
           tw == ReasoningNonStream(twin.rs, MessageContent(rstream),
                                    ~show_reasoning)
       IN /\ reasoning' = ReasoningReturn(variant, r.st)
          /\ sink' = sink \o r.out \o ReasoningFooter(variant, r.st, show_reasoning)
          /\ twin' = [DropTwinStreams(twin) EXCEPT
                        !.reasoning = ReasoningReturn(variant, tw.st)]
    /\ DropStreams
    /\ pc' = "r_complete"
    /\ last_op' = "reasoning_done"
    /\ UNCHANGED << config, deepseek_messages, response_messages, stray,
                    current_model, show_reasoning, turn, ok_turns, user_input,
                    full_response, requests, pre, delivered >>

\* what the response stage prints before its request
ResponseHeader(model) == <<Out("model", <<>>)>>

\* print(text, end="", flush=True) of a response delta
PrintResponse(text) == IF text # <<>> THEN <<Out("response", text)>> ELSE <<>>

\* the notice printed by the response stage's except clause
ErrorNotice == <<Out("error", <<>>)>>

\* the part of every response stage up to its request: the hand-off
\* messages are built (rat.py: appended to the history) and the request sent
SendResponseRequest ==
    /\ response_messages' =
          ResponseHistoryAtRequest(variant, response_messages, user_input,
                                   reasoning, turn)
    /\ requests' = Issue(requests, Request("response",
          ResponseModel(variant, current_model),
          ResponseRequestMessages(variant, response_messages, user_input,
                                  reasoning, turn)))
    /\ twin' = [twin EXCEPT
          !.response_messages =
              ResponseHistoryAtRequest(variant, @, user_input,
                                       twin.reasoning, turn),
          !.handoff =
              ResponseRequestMessages(variant, twin.response_messages,
                                      user_input, twin.reasoning, turn)]

\* the response request is sent and the backend starts to answer with p
ResponseRequest(p) ==
    /\ pc = "r_complete"
    /\ SendResponseRequest
    /\ sink' = sink \o ResponseHeader(current_model)
    /\ pstream' = p
    /\ full_response' = <<>>
    /\ pc' = "resp_stream"
    /\ last_op' = "response_request"
    /\ UNCHANGED << config, deepseek_messages, stray, current_model,
                    show_reasoning, turn, ok_turns, user_input, rstream, rs,
                    reasoning, pre, delivered >>

\* the response request raises: caught by the stage's except clause
ResponseRequestFail ==
    /\ pc = "r_complete"
    /\ SendResponseRequest
    /\ sink' = sink \o ResponseHeader(current_model) \o ErrorNotice
    /\ pc' = "prompt"
    /\ last_op' = "response_fail"
    /\ DropStreams
    /\ UNCHANGED << config, deepseek_messages, stray, current_model,
                    show_reasoning, turn, ok_turns, user_input, reasoning,
                    full_response, pre, delivered >>

\* one chunk of the response stream is consumed
ResponseChunk ==
    /\ pc = "resp_stream"
    /\ Streaming
    /\ pstream # <<>>
    /\ full_response' = full_response \o Head(pstream)
    /\ sink' = sink \o PrintResponse(Head(pstream))
    /\ pstream' = Tail(pstream)
    /\ last_op' = "chunk"
    /\ UNCHANGED << config, deepseek_messages, response_messages, stray,
                    current_model, show_reasoning, pc, turn, ok_turns,
                    user_input, rstream, rs, reasoning, requests, pre, twin,
                    delivered >>

\* rat.py: a chunk without a readable delta raises inside the loop; the
\* inner except clause reports it and the loop goes on
ResponseChunkError ==
    /\ pc = "resp_stream"
    /\ variant = "rat"
    /\ pstream # <<>>
    /\ Head(pstream) = <<>>
    /\ sink' = sink \o ErrorNotice
    /\ pstream' = Tail(pstream)
    /\ last_op' = "chunk"
    /\ UNCHANGED << config, deepseek_messages, response_messages, stray,
                    current_model, show_reasoning, pc, turn, ok_turns,
                    user_input, rstream, rs, reasoning, full_response,
                    requests, pre, twin, delivered >>

\* the response stream raises while it is read: caught by the stage's
\* except clause
ResponseStreamFail ==
    /\ pc = "resp_stream"
    /\ sink' = sink \o ErrorNotice
    /\ pc' = "prompt"
    /\ last_op' = "response_fail"
    /\ DropStreams
    /\ UNCHANGED << config, deepseek_messages, response_messages, stray,
                    current_model, show_reasoning, turn, ok_turns, user_input,
                    reasoning, full_response, requests, pre, twin,
                    delivered >>

\* Settle writing the reasoning payload into the reasoning history as well
SettleKeepingReasoning(full) ==
    /\ response_messages' =
          ResponseHistorySettled(variant, response_messages, user_input,
                                 full, turn)
    /\ deepseek_messages' =
          ReasoningHistorySettled(deepseek_messages,
              FormatReasoning(variant, reasoning) \o full, turn)
    /\ twin' = [twin EXCEPT
          !.response_messages =
              ResponseHistorySettled(variant, @, user_input, full, turn),
          !.deepseek_messages =
              ReasoningHistorySettled(@,
                  FormatReasoning(variant, twin.reasoning) \o full, turn)]
    /\ ok_turns' = ok_turns + 1
    /\ pc' = "prompt"
    /\ last_op' = "turn_ok"

\* both histories take the finished response and the stage returns
Settle(full) ==
    /\ response_messages' =
          ResponseHistorySettled(variant, response_messages, user_input,
                                 full, turn)
    /\ deepseek_messages' = ReasoningHistorySettled(deepseek_messages, full, turn)
    /\ twin' = [twin EXCEPT
          !.response_messages =
              ResponseHistorySettled(variant, @, user_input, full, turn),
          !.deepseek_messages = ReasoningHistorySettled(@, full, turn)]
    /\ ok_turns' = ok_turns + 1
    /\ pc' = "prompt"
    /\ last_op' = "turn_ok"

\* the response stream ends
ResponseEnd ==
    /\ pc = "resp_stream"
    /\ Streaming
    /\ pstream = <<>>
    /\ Settle(full_response)
    /\ DropStreams
    /\ UNCHANGED << config, stray, current_model, show_reasoning, turn,
                    user_input, reasoning, full_response, requests, sink,
                    pre, delivered >>

\* --no-stream: the whole response arrives
ResponseSingleShot ==
    /\ pc = "resp_stream"
    /\ ~Streaming
    /\ full_response' = Concat(pstream)
    /\ sink' = sink \o PrintResponse(Concat(pstream))
    /\ Settle(Concat(pstream))
    /\ DropStreams
    /\ UNCHANGED << config, stray, current_model, show_reasoning, turn,
                    user_input, reasoning, requests, pre, delivered >>

\* Ctrl-C during a turn: main() catches KeyboardInterrupt and reads the
\* next query
Interrupt ==
    /\ pc \in {"r_stream", "r_complete", "resp_stream"}
    /\ pc' = AfterInterrupt
    /\ last_op' = "interrupt"
    /\ twin' = DropTwinStreams(twin)
    /\ DropStreams
    /\ UNCHANGED << config, deepseek_messages, response_messages, stray,
                    current_model, show_reasoning, turn, ok_turns, user_input,
                    reasoning, full_response, requests, sink, pre,
                    delivered >>

Next ==
    \/ Quit
    \/ EndOfInput
    \/ Clear
    \/ \E name \in ModelNames : SetModel(name)
    \/ ToggleReasoning
    \/ \E q \in Queries, s \in ReasoningStreams : Submit(q, s)
    \/ \E q \in Queries : SubmitFail(q)
    \/ ReasoningChunk
    \/ ReasoningStreamFail
    \/ ReasoningEnd
    \/ ReasoningSingleShot
    \/ \E p \in ResponseStreams : ResponseRequest(p)
    \/ ResponseRequestFail
    \/ ResponseChunk
    \/ ResponseChunkError
    \/ ResponseStreamFail
    \/ ResponseEnd
    \/ ResponseSingleShot
    \/ Interrupt

Spec == Init /\ [][Next]_vars

(***************************************************************************)
(* Properties.                                                             *)
(***************************************************************************)
\* a message list as the backend sees it: role and content, in order
View(msgs) == [i \in 1..Len(msgs) |-> <<msgs[i].role, msgs[i].content>>]

\* the user messages of a history, in order
UserMessages(hist) == SelectSeq(hist, LAMBDA m : m.role = "user")

\* how many requests of a stage a log holds
RequestCount(log, stage) ==
    Cardinality({i \in 1..Len(log) : log[i].stage = stage})

\* the messages of the response-stage request of this turn, <<>> before it
HandoffSent ==
    IF \E i \in 1..Len(requests) : requests[i].stage = "response"
    THEN requests[CHOOSE i \in 1..Len(requests) :
                     requests[i].stage = "response"].messages
    ELSE <<>>

\* C1: after a turn in which the reasoning-stage call or the response-stage
\* call failed, the reasoning history and the response history are each
\* identical to what they were when the turn began.
C1_FailedTurnAddsNothing ==
    last_op \in {"reasoning_fail", "response_fail"} =>
        /\ deepseek_messages = pre.ds
        /\ response_messages = pre.resp

\* C2: at the prompt, after N completed turns since session start or the
\* last clear, each history holds exactly N user messages and the i-th user
\* message of one belongs to the same turn as the i-th of the other.
C2_HistoryAlignment ==
    pc = "prompt" =>
        LET a == UserMessages(deepseek_messages)
            b == UserMessages(response_messages)
        IN /\ Len(a) = ok_turns
           /\ Len(b) = ok_turns
           /\ \A i \in 1..ok_turns : a[i].turn = b[i].turn

\* C3: a backend failure in either stage never terminates the process:
\* after it main() is back at the prompt.
C3_FailureReturnsToPrompt ==
    last_op \in {"reasoning_fail", "response_fail"} => pc = "prompt"

\* C4: immediately after `clear` is processed the reasoning history and the
\* response history the response stage appends to are both empty.
C4_ClearEmptiesBoth ==
    last_op = "clear" =>
        /\ deepseek_messages = <<>>
        /\ response_messages = <<>>

C6_SettledPairEverywhere ==
    last_op = "turn_ok" =>
        /\ View(response_messages) =
              View(pre.resp) \o << <<"user", user_input>>,
                                   <<"assistant", full_response>> >>
        /\ View(deepseek_messages) =
              View(pre.ds) \o << <<"user", user_input>>,
                                 <<"assistant", full_response>> >>

\* C6 amended: as C6, except that in rat.py the user entry of the pair
\* holds the combined question/thinking prompt of the turn instead of the
\* query itself.
C6_SettledPair ==
    last_op = "turn_ok" =>
        /\ View(response_messages) =
              View(pre.resp) \o
              << <<"user", IF variant = "rat"
                           THEN QUESTION_OPEN \o user_input \o QUESTION_CLOSE
                                \o NLNL \o THINKING_OPEN \o reasoning
                                \o THINKING_CLOSE \o NLNL
                           ELSE user_input>>,
                 <<"assistant", full_response>> >>
        /\ View(deepseek_messages) =
              View(pre.ds) \o << <<"user", user_input>>,
                                 <<"assistant", full_response>> >>

\* C6 witness: a second turn has just completed with a response that is
\* not empty.
C6_Witness ==
    /\ last_op = "turn_ok"
    /\ turn = 2
    /\ pre.ds # <<>>
    /\ full_response # <<>>

\* C7: no turn issues more than one reasoning-stage request or more than
\* one response-stage request, and the response-stage request is issued
\* only from the point where get_deepseek_reasoning has returned.
C7_StagesSequential ==
    [][ /\ RequestCount(requests', "reasoning") <= 1
        /\ RequestCount(requests', "response") <= 1
        /\ (RequestCount(requests', "response")
               > RequestCount(requests, "response")
            => /\ pc = "r_complete"
               /\ RequestCount(requests, "reasoning") = 1
               /\ requests'[1].stage = "reasoning") ]_vars

\* C7 witness: a turn has issued both of its requests.
C7_Witness ==
    /\ pc = "resp_stream"
    /\ RequestCount(requests, "reasoning") = 1
    /\ RequestCount(requests, "response") = 1

\* C8: after a response stage that failed the reasoning history is what it
\* was before the turn plus the turn's user message, and the response
\* history is what it was before the turn.
C8_ResponseFailureLeaves ==
    last_op = "response_fail" =>
        /\ View(deepseek_messages) =
              Append(View(pre.ds), <<"user", user_input>>)
        /\ response_messages = pre.resp

\* C9: the session run with the opposite reasoning display setting
\* accumulates the same reasoning text, returns the same payload, sends the
\* same hand-off context and holds the same two histories.
C9_ToggleInvisible ==
    /\ twin.rs = rs
    /\ twin.reasoning = reasoning
    /\ twin.handoff = HandoffSent
    /\ twin.deepseek_messages = deepseek_messages
    /\ twin.response_messages = response_messages

\* C9 witness: a turn run with the reasoning display off has accumulated
\* reasoning text and sent its hand-off.
C9_Witness ==
    /\ ~show_reasoning
    /\ pc = "resp_stream"
    /\ reasoning # <<>>
    /\ HandoffSent # <<>>
    /\ variant \in {"akash", "claude"}

\* C10: during a turn run with show_reasoning false no reasoning text is
\* printed to the terminal.
C10_HiddenReasoningNotPrinted ==
    ~show_reasoning =>
        \A i \in 1..Len(sink) :
            ~(sink[i].kind = "reasoning" /\ sink[i].text # <<>>)

\* C16: a KeyboardInterrupt at any point of either stage leaves the
\* process running at the prompt.
C16_InterruptReturnsToPrompt ==
    last_op = "interrupt" => pc = "prompt"

\* C16 witness: a turn was interrupted after its response request was sent.
C16_Witness ==
    /\ last_op = "interrupt"
    /\ RequestCount(requests, "response") = 1
    /\ pc = "prompt"

\* C17: after an interrupted turn both histories are what they were when
\* the turn began.
C17_InterruptLeavesHistories ==
    last_op = "interrupt" =>
        /\ deepseek_messages = pre.ds
        /\ response_messages = pre.resp

\* C18: `model <name>` sets the model the next response-stage request
\* names; every response-stage request names the model current when it
\* was sent, every reasoning-stage request names the variant's reasoning
\* model, and the command is processed only while no request of a turn is
\* outstanding.
C18_ModelCommand ==
    [][ /\ (last_op' = "model" =>
               /\ current_model' \in ModelNames
               /\ pc = "prompt" /\ pc' = "prompt"
               /\ requests' = <<>>)
        /\ \A i \in 1..Len(requests') :
               /\ requests'[i].stage = "response" =>
                     requests'[i].model = current_model'
               /\ requests'[i].stage = "reasoning" =>
                     requests'[i].model =
                        ReasoningModel(variant, use_deepseek_openrouter) ]_vars

\* C18 witness: after `model other-model` a turn has sent its response
\* request.
C18_Witness ==
    /\ current_model = "other-model"
    /\ pc = "resp_stream"
    /\ HandoffSent # <<>>
    /\ \E i \in 1..Len(requests) :
          requests[i].stage = "response" /\ requests[i].model = "other-model"

\* C19: the reasoning-stage request of a turn carries the whole reasoning
\* history as it stood before the turn, in order, followed by the turn's
\* user query.
C19_ReasoningRequestCarriesHistory ==
    \A i \in 1..Len(requests) :
        requests[i].stage = "reasoning" =>
            View(requests[i].messages) =
                Append(View(pre.ds), <<"user", user_input>>)

\* C19 witness: the reasoning request of a second turn was sent while the
\* reasoning history held the completed first turn.
C19_Witness ==
    /\ pc = "r_stream"
    /\ turn = 2
    /\ Len(pre.ds) = 2
    /\ RequestCount(requests, "reasoning") = 1

(***************************************************************************)
(* The reasoning stage on its own: one turn of every variant, fed every    *)
(* fragmentation of a few model outputs.                                   *)
(***************************************************************************)
\* Bound on the number of places a text is cut into chunks.
MaxCuts == 2

\* model outputs: a pair followed by text, text followed by an open
\* marker that is never closed, a close marker that nothing opened
TextPair == OPEN \o <<"a">> \o CLOSE \o <<"z">>
TextLead == <<"x">> \o OPEN \o <<"a">>
TextStray == <<"a">> \o CLOSE \o <<"b">>

\* a model output in which marker text encloses a marker
TextNested == <<"<", "t", "h", "i">> \o OPEN \o <<"n", "k", ">">>

ExtractTexts == {TextPair, TextLead, TextStray, TextNested}

\* the pieces of text from position from on, cut after every position in cuts
RECURSIVE Pieces(_, _, _)
Pieces(text, cuts, from) ==
    IF \E c \in cuts : c >= from
    THEN LET c == CHOOSE x \in cuts :
                    x >= from /\ \A y \in cuts : y >= from => x <= y
         IN <<SubSeq(text, from, c)>> \o Pieces(text, cuts, c + 1)
    ELSE <<SubSeq(text, from, Len(text))>>

\* the content-only stream delivering text cut after the positions in cuts
Fragments(text, cuts) ==
    LET ps == Pieces(text, cuts, 1)
    IN [i \in 1..Len(ps) |-> Chunk(<<>>, ps[i])]

\* every stream delivering text in at most MaxCuts + 1 chunks
Fragmentations(text) ==
    { Fragments(text, cuts) :
        cuts \in {S \in SUBSET (1..(Len(text) - 1)) : Cardinality(S) <= MaxCuts} }

\* an explicit-field stream whose reasoning deltas hold marker text
StreamFieldsTagged ==
    << Chunk(<<"a">> \o CLOSE, <<>>),
       Chunk(<<"b">>, <<>>),
       Chunk(<<>>, <<"z">>) >>

ExtractStreams ==
    UNION {Fragmentations(t) : t \in ExtractTexts}
    \cup {StreamSplit, StreamFields, StreamFieldsTagged}

\* the streaming loop of get_deepseek_reasoning run over chunks: the locals
\* it ends with
RECURSIVE RunLoop(_, _, _, _, _)
RunLoop(v, ds, st, chunks, show) ==
    IF chunks = <<>> \/ st.brk THEN st
    ELSE RunLoop(v, ds, ReasoningStep(v, ds, st, Head(chunks), show).st,
                 Tail(chunks), show)

\* what the streaming get_deepseek_reasoning returns for a stream
StreamPayload(v, ds, chunks) ==
    ReasoningReturn(v, RunLoop(v, ds, ReasoningLocals, chunks, TRUE))

\* what the non-streaming get_deepseek_reasoning returns for the same output
SingleShotPayload(v, chunks) ==
    ReasoningReturn(v,
        ReasoningNonStream(ReasoningLocals, MessageContent(chunks), TRUE).st)

NextExtract ==
    \/ \E s \in ExtractStreams : Submit(<<"h", "i">>, s)
    \/ ReasoningChunk
    \/ ReasoningEnd
    \/ ReasoningSingleShot
    \/ \E p \in ResponseStreams : ResponseRequest(p)

SpecExtract == Init /\ [][NextExtract]_vars

\* the session is a streaming one of an inline-tag backend
InlineTag ==
    /\ Streaming
    /\ variant \in {"akash", "local"} \/ (variant = "claude" /\ ~use_deepseek_openrouter)

\* the session is a streaming one of an explicit-field backend
ExplicitField ==
    /\ Streaming
    /\ variant = "rat" \/ (variant = "claude" /\ use_deepseek_openrouter)

\* the reasoning payload as one text (rat-local.py returns a list of texts)
PayloadText == IF variant = "local" THEN Concat(reasoning) ELSE reasoning

\* the streaming loop run over every chunk, its break never taken
RECURSIVE RunToEnd(_, _, _, _, _)
RunToEnd(v, ds, st, chunks, show) ==
    IF chunks = <<>> THEN st
    ELSE RunToEnd(v, ds, ReasoningStep(v, ds, st, Head(chunks), show).st,
                  Tail(chunks), show)

\* what get_deepseek_reasoning returns when the stream is consumed to its end
NaturalPayload(v, ds, chunks) ==
    ReasoningReturn(v, RunToEnd(v, ds, ReasoningLocals, chunks, TRUE))

\* the text strictly between matched <think>/</think> pairs and, after a
\* last <think> that is never closed, everything that follows it
RECURSIVE InsideText(_)
InsideText(text) ==
    LET i == Find(text, OPEN, 1) IN
    IF i = 0 THEN <<>>
    ELSE LET j == Find(text, CLOSE, i + Len(OPEN)) IN
         IF j = 0 THEN Tail_(text, i + Len(OPEN))
         ELSE SubSeq(text, i + Len(OPEN), j - 1)
              \o InsideText(Tail_(text, j + Len(CLOSE)))

\* the reasoning deltas of a stream, concatenated in order
ReasoningDeltas(chunks) == Concat([i \in 1..Len(chunks) |-> chunks[i].rc])

\* the last position of the first <think> of a text
OpenEnd(text) == Find(text, OPEN, 1) + Len(OPEN) - 1

PLAN_A == <<"p", "l", "a", "n", " ", "A">>

\* C11: an inline-tag stream that delivers <think> cut in two at any place
\* yields the payload of the stream that delivers it whole.
C11_SplitOpenSamePayload ==
    \A t \in {TextPair, TextLead} :
        (/\ InlineTag
         /\ pc = "r_complete"
         /\ \E k \in (OpenEnd(t) - Len(OPEN) + 1)..(OpenEnd(t) - 1) :
               delivered = Fragments(t, {k, OpenEnd(t)}))
        => reasoning = StreamPayload(variant, use_deepseek_openrouter,
                                     Fragments(t, {OpenEnd(t)}))

\* C12: when the reasoning stream delivers "<th", "ink>plan A</thi", "nk>"
\* the payload is "plan A" and the hand-off context is [user: the query,
\* assistant: <thinking>plan A</thinking>].
C12_PlanAExample ==
    (InlineTag /\ delivered = StreamSplit) =>
        /\ pc \in {"r_complete", "resp_stream"} => PayloadText = PLAN_A
        /\ pc = "resp_stream" =>
              View(HandoffSent) =
                 << <<"user", user_input>>,
                    <<"assistant", THINKING_OPEN \o PLAN_A \o THINKING_CLOSE>> >>

\* C13: for every fragmentation of an inline-tag stream the payload is
\* exactly the text inside the markers.
C13_PayloadIsInsideText ==
    (InlineTag /\ pc = "r_complete") =>
        PayloadText = InsideText(MessageContent(delivered))

\* C14: an inline-tag reasoning stage, which stops at </think>, returns the
\* payload it would return had it consumed the stream to its end.
C14_EarlyStopEquivalence ==
    (InlineTag /\ pc = "r_complete") =>
        reasoning = NaturalPayload(variant, use_deepseek_openrouter, delivered)

\* C15: the streaming reasoning stage returns, under every fragmentation,
\* the payload the non-streaming stage returns for the same output text.
C15_TransportInvisible ==
    (InlineTag /\ variant \in {"akash", "claude"} /\ pc = "r_complete") =>
        reasoning = SingleShotPayload(variant, delivered)

\* C20: for an explicit-field backend the payload is the in-order
\* concatenation of the reasoning deltas of the stream, unmodified.
C20_ExplicitFieldOneToOne ==
    (ExplicitField /\ pc = "r_complete") =>
        reasoning = ReasoningDeltas(delivered)

\* C21: the payload the stripping step of rat-akash.py and rat-claude.py
\* produces holds neither <think> nor </think>, and stripping it again
\* returns it unchanged.
C21_StrippingComplete ==
    (variant \in {"akash", "claude"} /\ pc = "r_complete") =>
        /\ ~Contains(reasoning, OPEN)
        /\ ~Contains(reasoning, CLOSE)
        /\ ReasoningReturn(variant,
               [ReasoningLocals EXCEPT !.reasoning_content = reasoning])
              = reasoning

\* C22: a </think> that arrives while no <think> is open does not end the
\* streaming loop of an inline-tag stage, and the text before and after it
\* stays outside the payload.
C22_StrayCloseIsText ==
    (InlineTag /\ MessageContent(delivered) = TextStray) =>
        /\ pc = "r_stream" => ~rs.brk
        /\ pc = "r_complete" => PayloadText = InsideText(TextStray)

\* C23: the reasoning history grows only by the user query of a turn and by
\* one assistant message holding the finished response of a completed
\* turn, messages once appended stay as they are, and no message of the
\* reasoning history holds the reasoning payload of the turn.
C23_ReasoningNotRetained ==
    [][ /\ (last_op' = "turn_ok" =>
               View(deepseek_messages') =
                  Append(View(deepseek_messages),
                         <<"assistant", full_response'>>))
        /\ (last_op' # "turn_ok" =>
               View(deepseek_messages') \in
                  { View(deepseek_messages), <<>>,
                    Append(View(deepseek_messages), <<"user", user_input'>>) })
        /\ (PayloadText' # <<>> =>
               \A i \in 1..Len(deepseek_messages') :
                   ~Contains(deepseek_messages'[i].content, PayloadText')) ]_vars

\* C23 witness: a second turn whose reasoning payload is not empty has just
\* completed, and the reasoning history holds both turns.
C23_Witness ==
    /\ last_op = "turn_ok"
    /\ turn = 2
    /\ Len(deepseek_messages) = 4
    /\ PayloadText # <<>>

\* C24: in every variant the last message of the response-stage request is
\* an assistant message whose content is <thinking>, the reasoning payload
\* character for character, </thinking>, and nothing else.
C24_FixedTemplate ==
    RequestCount(requests, "response") > 0 =>
        LET m == HandoffSent[Len(HandoffSent)]
        IN /\ m.role = "assistant"
           /\ m.content = THINKING_OPEN \o PayloadText \o THINKING_CLOSE

\* the text of the given kind printed so far in this turn, in order
SinkText(kind) ==
    Concat([i \in 1..Len(sink) |->
               IF sink[i].kind = kind THEN sink[i].text ELSE <<>>])

\* the reasoning text the streaming loop has accumulated so far
Accumulated ==
    IF variant = "local" THEN rs.think_content ELSE rs.reasoning_content

\* C25: while a stream is read, what has been printed is, in order, all the
\* text accumulated from the chunks consumed so far: the reasoning text when
\* the reasoning display is on, and the response text always.
C25_ProgressiveFifo ==
    /\ (Streaming /\ show_reasoning /\ pc = "r_stream") =>
           SinkText("reasoning") = Accumulated
    /\ (Streaming /\ pc = "resp_stream") =>
           SinkText("response") = full_response

\* a history alternates user, assistant, ... and ends with an assistant
Alternates(hist) ==
    /\ Len(hist) % 2 = 0
    /\ \A i \in 1..Len(hist) :
           hist[i].role = IF i % 2 = 1 THEN "user" ELSE "assistant"

\* C26: at the prompt the reasoning history alternates user, assistant
\* from a user message on and is empty or ends with an assistant message,
\* and no reasoning-stage request holds two user messages in a row.
C26_ReasoningHistoryAlternates ==
    /\ pc = "prompt" => Alternates(deepseek_messages)
    /\ \A i \in 1..Len(requests) :
           requests[i].stage = "reasoning" =>
               \A j \in 1..(Len(requests[i].messages) - 1) :
                   ~(/\ requests[i].messages[j].role = "user"
                     /\ requests[i].messages[j + 1].role = "user")

\* C27: `model <name>` and `reasoning` leave both histories as they are and
\* issue no request; `reasoning` negates the display setting and leaves the
\* model, `model <name>` leaves the display setting, so `reasoning` applied
\* twice restores the setting.
C27_PureConfiguration ==
    [][ /\ (last_op' \in {"model", "reasoning"} =>
               /\ deepseek_messages' = deepseek_messages
               /\ response_messages' = response_messages
               /\ requests' = <<>>
               /\ pc = "prompt" /\ pc' = "prompt")
        /\ (last_op' = "reasoning" =>
               /\ show_reasoning' = ~show_reasoning
               /\ current_model' = current_model)
        /\ (last_op' = "model" => show_reasoning' = show_reasoning)
        /\ (last_op = "reasoning" /\ last_op' = "reasoning" =>
               show_reasoning' = ~show_reasoning) ]_vars

\* C27 witness: with a completed turn in both histories and the model
\* changed, `reasoning` has just brought the display setting back to the
\* value the session started with.
C27_Witness ==
    /\ last_op = "reasoning"
    /\ show_reasoning
    /\ Len(deepseek_messages) = 2
    /\ response_messages # <<>>
    /\ current_model = "other-model"

====
